---- MODULE Spec2Model ----
(***************************************************************************)
(* Model of src/demo.py: the PymongoPlus client (collection provisioning,  *)
(* search-index provisioning, index existence check, semantic search) and  *)
(* the demonstration script with its readiness-polling loop.               *)
(*                                                                         *)
(* The database gateway and the embedding provider are external: every     *)
(* remote request is one atomic step whose outcome (ok / failure) is       *)
(* chosen nondeterministically.  Calls are sequenced with a program        *)
(* counter `pc` and a stack of return labels, one label per call site.     *)
(*                                                                         *)
(* Spec     : one client making calls one after the other                  *)
(* SpecDemo : runs of the demo script only, with fairness of its steps     *)
(* SpecConc : two clients inside create_if_not_exists at the same time     *)
(***************************************************************************)
EXTENDS Integers, Sequences, FiniteSets, TLC

\* ---------------------------------------------------------------- bounds
MaxCalls == 2          \* top-level operations invoked in one behaviour
MaxDocs  == 2          \* stored documents a collection may start with

\* ------------------------------------------------------ program constants
max_attempts == 10     \* demo.py line 196

DemoColl == "test_collection"          \* demo.py line 181
DemoIdx  == "vector_search_index"      \* demo.py line 182

Procs    == {1, 2}                     \* two clients provisioning at once
Colls    == {DemoColl, "docs"}
IdxNames == {DemoIdx, "vec_idx"}
Limits   == {1, 5, 11}                 \* 5 is the default of search()

VARIABLES
    collections,  \* gateway: names listed by list_collection_names()
    sentinel,     \* gateway: collections holding the {"_id": 0} placeholder
    indexes,      \* gateway: [<<coll, name>> -> number of search indexes]
    docs,         \* gateway: [coll -> number of stored searchable documents]
    op,           \* top-level operation being executed
    arg,          \* its arguments [c, n, limit]
    pc,           \* position inside the routine being executed
    stack,        \* return labels of the callers, innermost first
    rv,           \* outcome of the routine that just finished
    log,          \* gateway/provider requests of the current call: <<req, ok>>
    errs,         \* logger.error lines of the current call
    pre,          \* gateway state when the current call started
    prev,         \* summary of the previous top-level call
    calls,        \* number of top-level calls started
    attempt,      \* demo: the poll loop's attempt counter
    pollLog,      \* demo: results of the loop's existence checks
    pollState,    \* demo: Unknown / Checking / Ready / TimedOut
    printed,      \* demo: the status line printed at the end
    cpc,          \* concurrent provisioners: [proc -> position]
    carg,         \* concurrent provisioners: [proc -> collection name]
    cabsent,      \* concurrent provisioners: [proc -> line 43 found it absent]
    cfault        \* concurrent provisioners: [proc -> a request of it failed]

gw     == <<collections, sentinel, indexes, docs>>
demoV  == <<attempt, pollLog, pollState, printed>>
callV  == <<op, arg, pre, prev, calls>>
concV  == <<cpc, carg, cabsent, cfault>>
clientV == <<op, arg, pc, stack, rv, log, errs, pre, prev, calls,
             attempt, pollLog, pollState, printed>>
vars   == <<collections, sentinel, indexes, docs, op, arg, pc, stack, rv,
            log, errs, pre, prev, calls, attempt, pollLog, pollState, printed,
            cpc, carg, cabsent, cfault>>

\* ------------------------------------------------------------ outcomes
NoValue      == [kind |-> "none",     exc |-> "",  bool |-> FALSE, docs |-> <<>>]
Returned     == [kind |-> "returned", exc |-> "",  bool |-> FALSE, docs |-> <<>>]
ReturnedBool(b) == [kind |-> "returned", exc |-> "", bool |-> b, docs |-> <<>>]
ReturnedDocs(d) == [kind |-> "returned", exc |-> "", bool |-> FALSE, docs |-> d]
Raised(e)    == [kind |-> "raised",   exc |-> e,   bool |-> FALSE, docs |-> <<>>]

Count(s, x) == Cardinality({i \in 1..Len(s) : s[i] = x})
Requests(s, r) == Cardinality({i \in 1..Len(s) : s[i][1] = r})
Failed(s, r) == \E i \in 1..Len(s) : s[i] = <<r, FALSE>>

Done == pc = "ret" /\ stack = <<>>
CanStart == pc = "idle" \/ Done

\* ------------------------------------------------------------------ Init
Init ==
    /\ collections \in SUBSET Colls
    /\ sentinel = {}
    /\ indexes = [k \in Colls \X IdxNames |-> 0]
    /\ docs \in [Colls -> 0..MaxDocs]
    /\ \A c \in Colls : c \notin collections => docs[c] = 0
    /\ op = "none"
    /\ arg = [c |-> DemoColl, n |-> DemoIdx, limit |-> 5]
    /\ pc = "idle"
    /\ stack = <<>>
    /\ rv = NoValue
    /\ log = <<>>
    /\ errs = <<>>
    /\ pre = [colls |-> collections, idx |-> indexes]
    /\ prev = [op |-> "none", c |-> DemoColl, n |-> DemoIdx, kind |-> "none", creates |-> 0]
    /\ calls = 0
    /\ attempt = 0
    /\ pollLog = <<>>
    /\ pollState = "Unknown"
    /\ printed = ""
    /\ cpc = [p \in Procs |-> "off"]
    /\ carg = [p \in Procs |-> DemoColl]
    /\ cabsent = [p \in Procs |-> FALSE]
    /\ cfault = [p \in Procs |-> FALSE]

\* Entering a top-level call: remember the call that just finished and
\* snapshot the gateway.
Begin(o, c, n, l, entry, callers) ==
    /\ CanStart
    /\ calls < MaxCalls
    /\ calls' = calls + 1
    /\ prev' = IF op = "none" THEN prev
               ELSE [op |-> op, c |-> arg.c, n |-> arg.n, kind |-> rv.kind,
                     creates |-> Requests(log, "create_search_index")]
    /\ op' = o
    /\ arg' = [c |-> c, n |-> n, limit |-> l]
    /\ pre' = [colls |-> collections, idx |-> indexes]
    /\ pc' = entry
    /\ stack' = callers
    /\ rv' = NoValue
    /\ log' = <<>>
    /\ errs' = <<>>
    /\ attempt' = 0
    /\ pollLog' = <<>>
    /\ pollState' = "Unknown"
    /\ printed' = ""
    /\ UNCHANGED <<gw, concV>>

\* ------------------------------------------- create_if_not_exists (33-53)
\* variant: the membership test of line 43 is dropped
NeedsCreateAlways(c, names) == TRUE

\* line 43: `if collection_name not in collection_names`
NeedsCreate(c, names) == c \notin names

\* variant: a second placeholder with _id 0 is accepted
InsertSucceedsBlind(ok, hasSentinel) == ok

\* line 47: insert_one({"_id": 0, ...}) is rejected by the gateway when a
\* document with _id 0 is already stored (duplicate key).
InsertSucceeds(ok, hasSentinel) == ok /\ ~hasSentinel

\* top-level call of create_if_not_exists
ProvisionStart ==
    \E c \in Colls : Begin("provision", c, DemoIdx, 5, "cine_list", <<>>)

\* line 41: database.list_collection_names(), then the test of line 43
CineList ==
    /\ pc = "cine_list"
    /\ \E ok \in BOOLEAN :
        /\ log' = Append(log, <<"list_collection_names", ok>>)
        /\ IF ~ok
           THEN pc' = "ret" /\ rv' = Raised("list_collection_names")
           ELSE IF NeedsCreate(arg.c, collections)
                THEN pc' = "cine_insert" /\ rv' = rv
                ELSE pc' = "ret" /\ rv' = Returned
    /\ UNCHANGED <<gw, callV, stack, errs, demoV, concV>>

\* line 47: collection.insert_one(placeholder)
CineInsert ==
    /\ pc = "cine_insert"
    /\ \E ok \in BOOLEAN :
        LET succ == InsertSucceeds(ok, arg.c \in sentinel) IN
        /\ log' = Append(log, <<"insert_one", succ>>)
        /\ IF succ
           THEN /\ collections' = collections \cup {arg.c}
                /\ sentinel' = sentinel \cup {arg.c}
                /\ pc' = "cine_delete"
                /\ rv' = rv
           ELSE /\ UNCHANGED <<collections, sentinel>>
                /\ pc' = "ret"
                /\ rv' = Raised("insert_one")
    /\ UNCHANGED <<indexes, docs, callV, stack, errs, demoV, concV>>

\* variant: a failed delete is made up for, the placeholder goes anyway
AfterDeleteCompensated(ok, s, c) == s \ {c}

\* variant: the delete does not match the placeholder
AfterDeleteMissed(ok, s, c) == s

\* line 48: the placeholders left by delete_one({"_id": 0}); a failed request
\* removes nothing and nothing is done about it (no handler in 40-53)
AfterDelete(ok, s, c) == IF ok THEN s \ {c} ELSE s

\* line 48: collection.delete_one({"_id": 0}), then return (line 53)
CineDelete ==
    /\ pc = "cine_delete"
    /\ \E ok \in BOOLEAN :
        /\ log' = Append(log, <<"delete_one", ok>>)
        /\ IF ok
           THEN rv' = Returned
           ELSE rv' = Raised("delete_one")
        /\ sentinel' = AfterDelete(ok, sentinel, arg.c)
    /\ pc' = "ret"
    /\ UNCHANGED <<collections, indexes, docs, callV, stack, errs, demoV, concV>>

\* ---------------------------------------------------- index_exists (154-172)
\* the names returned by list_search_indexes() on a collection
Listed(c) == {n \in IdxNames : indexes[<<c, n>>] > 0}

\* variant: the handlers of 167-172 let the failure out
IndexExistsPropagating(ok, names, n) ==
    IF ok THEN ReturnedBool(n \in names) ELSE Raised("list_search_indexes")

\* lines 162-172: any(name == index_name) on success, False on any failure
IndexExistsResult(ok, names, n) ==
    IF ok THEN ReturnedBool(n \in names) ELSE ReturnedBool(FALSE)

\* top-level call of index_exists
ExistsStart ==
    \E c \in Colls, n \in IdxNames :
        Begin("exists", c, n, 5, "ix_list", <<>>)

\* line 164: collection.list_search_indexes(), and the handlers 167-172
IxList ==
    /\ pc = "ix_list"
    /\ \E ok \in BOOLEAN :
        /\ log' = Append(log, <<"list_search_indexes", ok>>)
        /\ errs' = IF ok THEN errs ELSE Append(errs, "index_exists")
        /\ rv' = IndexExistsResult(ok, Listed(arg.c), arg.n)
    /\ pc' = "ret"
    /\ UNCHANGED <<gw, callV, stack, demoV, concV>>

\* ----------------------------------------------- _create_search_index (55-111)
\* top-level call of _create_search_index; line 74 calls create_if_not_exists
EnsureStart ==
    \E c \in Colls, n \in IdxNames :
        Begin("ensure", c, n, 5, "cine_list", <<"ensure_cine">>)

\* variant: the handlers log and return
ReraiseSwallowed(e) == Returned

\* the handlers of lines 106-111 end in `raise e`
Reraise(e) == Raised(e)

\* back from line 74; line 77 calls index_exists
EnsureAfterCine ==
    /\ pc = "ret" /\ stack # <<>> /\ Head(stack) = "ensure_cine"
    /\ IF rv.kind = "raised"
       THEN /\ errs' = Append(errs, "create_search_index_failed")
            /\ rv' = Reraise(rv.exc)
            /\ pc' = "ret"
            /\ stack' = Tail(stack)
       ELSE /\ pc' = "ix_list"
            /\ stack' = <<"ensure_ix">> \o Tail(stack)
            /\ UNCHANGED <<rv, errs>>
    /\ UNCHANGED <<gw, callV, log, demoV, concV>>

\* variant: the result of the check of line 77 is ignored
SkipCreateNever(exists) == FALSE

\* line 77: the index is reported present
SkipCreate(exists) == exists

\* lines 77-79: return when the index exists, otherwise go on to line 84
EnsureAfterIx ==
    /\ pc = "ret" /\ stack # <<>> /\ Head(stack) = "ensure_ix"
    /\ stack' = Tail(stack)
    /\ IF SkipCreate(rv.bool)
       THEN pc' = "ret" /\ rv' = Returned
       ELSE pc' = "ensure_probe" /\ rv' = rv
    /\ UNCHANGED <<gw, callV, log, errs, demoV, concV>>

\* line 89: len(get_embedding("0")); get_embedding logs and re-raises (16-18)
EnsureProbe ==
    /\ pc = "ensure_probe"
    /\ \E ok \in BOOLEAN :
        /\ log' = Append(log, <<"get_embedding", ok>>)
        /\ IF ok
           THEN pc' = "ensure_create" /\ UNCHANGED <<rv, errs, stack>>
           ELSE /\ errs' = errs \o <<"embedding", "create_search_index_failed">>
                /\ rv' = Reraise("get_embedding")
                /\ pc' = "ret"
                /\ stack' = stack
    /\ UNCHANGED <<gw, callV, demoV, concV>>

\* line 103: collection.create_search_index(model)
EnsureCreate ==
    /\ pc = "ensure_create"
    /\ \E ok \in BOOLEAN :
        /\ log' = Append(log, <<"create_search_index", ok>>)
        /\ IF ok
           THEN /\ indexes' = [indexes EXCEPT ![<<arg.c, arg.n>>] = @ + 1]
                /\ rv' = Returned
                /\ errs' = errs
           ELSE /\ indexes' = indexes
                /\ errs' = Append(errs, "create_search_index_failed")
                /\ rv' = Reraise("create_search_index")
    /\ pc' = "ret"
    /\ UNCHANGED <<collections, sentinel, docs, callV, stack, demoV, concV>>

\* ------------------------------------------------------------ search (112-153)
\* variant: the client is given a working embedder, collection and Document
HasEmbedderSet == TRUE

\* the class body (lines 25-31) never defines `embedder` or `_collection`,
\* and the module never defines `Document`
HasEmbedder == FALSE

\* top-level call of search
SearchStart ==
    \E c \in Colls, n \in IdxNames, l \in Limits :
        Begin("search", c, n, l, "search_embed", <<>>)

\* variant: the embedding failure is turned into an empty result
EmbedFailureSwallowed(e) == ReturnedDocs(<<>>)

\* what search does when get_embedding(query) of line 116 raises: the call
\* is outside the try block of line 124, so the exception leaves search
EmbedFailure(e) == Raised(e)

\* line 116: query_embedding = get_embedding(query) (lines 12-18), then
\* line 117 calls index_exists
SearchEmbed ==
    /\ pc = "search_embed"
    /\ \E ok \in BOOLEAN :
        /\ log' = Append(log, <<"get_embedding", ok>>)
        /\ IF ok
           THEN /\ pc' = "ix_list"
                /\ stack' = <<"search_ix">> \o stack
                /\ UNCHANGED <<rv, errs>>
           ELSE /\ errs' = Append(errs, "embedding")
                /\ rv' = EmbedFailure("get_embedding")
                /\ pc' = "ret"
                /\ stack' = stack
    /\ UNCHANGED <<gw, callV, demoV, concV>>

\* lines 117-122: empty result when the index is not reported; the test of
\* line 120 never succeeds, get_embedding returns a vector or raises
SearchAfterIx ==
    /\ pc = "ret" /\ stack # <<>> /\ Head(stack) = "search_ix"
    /\ stack' = Tail(stack)
    /\ IF ~rv.bool
       THEN /\ errs' = Append(errs, "index_missing")
            /\ rv' = ReturnedDocs(<<>>)
            /\ pc' = "ret"
       ELSE /\ pc' = "search_pipeline"
            /\ UNCHANGED <<rv, errs>>
    /\ UNCHANGED <<gw, callV, log, demoV, concV>>

\* lines 127-133: the $vectorSearch stage; its limit and numCandidates are
\* the literal 10 whatever `limit` the caller passed
VectorSearchStage(n, limit) ==
    [index |-> n, limit |-> 10, numCandidates |-> 10, path |-> "embedding"]

\* the scores of the records an aggregation returns: the best
\* min(10, stored) documents, best first (lines 127-138)
Min(a, b) == IF a < b THEN a ELSE b
Aggregated(stored) == [i \in 1..Min(10, stored) |-> stored + 1 - i]

\* lines 124-153: building the pipeline evaluates self.embedder (line 131),
\* which raises inside the try block; the handler of 151-153 returns []
SearchPipeline ==
    /\ pc = "search_pipeline"
    /\ IF HasEmbedder
       THEN /\ log' = log \o <<<<"get_embedding", TRUE>>, <<"aggregate", TRUE>>>>
            /\ rv' = ReturnedDocs(Aggregated(docs[arg.c]))
            /\ errs' = errs
       ELSE /\ log' = log
            /\ errs' = Append(errs, "search_error")
            /\ rv' = ReturnedDocs(<<>>)
    /\ pc' = "ret"
    /\ UNCHANGED <<gw, callV, stack, demoV, concV>>

\* ------------------------------------------------- demo script (175-211)
\* lines 186-192: step 1, _create_search_index on the demo's names
DemoStart ==
    Begin("demo", DemoColl, DemoIdx, 5, "cine_list", <<"ensure_cine", "demo_step1">>)

\* back from step 1: an exception ends the script, otherwise the loop of
\* line 198 makes its first existence check
DemoAfterEnsure ==
    /\ pc = "ret" /\ stack # <<>> /\ Head(stack) = "demo_step1"
    /\ IF rv.kind = "raised"
       THEN /\ stack' = Tail(stack)
            /\ pc' = "ret"
            /\ UNCHANGED <<rv, pollState>>
       ELSE /\ stack' = <<"demo_poll">> \o Tail(stack)
            /\ pc' = "ix_list"
            /\ pollState' = "Checking"
            /\ rv' = rv
    /\ UNCHANGED <<gw, callV, log, errs, attempt, pollLog, printed, concV>>

\* variant: the budget test allows one more round
ExhaustedLate(a) == a > max_attempts + 1

\* variant: the budget test is off by one
ExhaustedEarly(a) == a >= max_attempts

\* line 200: `if attempt > max_attempts`
Exhausted(a) == a > max_attempts

\* lines 198-204: one evaluation of the loop condition and the loop body;
\* leaving the loop leads to the check of line 207
DemoPoll ==
    /\ pc = "ret" /\ stack # <<>> /\ Head(stack) = "demo_poll"
    /\ pollLog' = Append(pollLog, rv.bool)
    /\ pc' = "ix_list"
    /\ IF rv.bool
       THEN /\ pollState' = "Ready"
            /\ stack' = <<"demo_final">> \o Tail(stack)
            /\ UNCHANGED <<attempt, errs>>
       ELSE /\ attempt' = attempt + 1
            /\ IF Exhausted(attempt + 1)
               THEN /\ errs' = Append(errs, "timed_out")
                    /\ pollState' = "TimedOut"
                    /\ stack' = <<"demo_final">> \o Tail(stack)
               ELSE /\ UNCHANGED <<errs, pollState, stack>>
    /\ UNCHANGED <<gw, callV, log, rv, printed, concV>>

\* lines 207-211: the final status check and the printed line
DemoFinal ==
    /\ pc = "ret" /\ stack # <<>> /\ Head(stack) = "demo_final"
    /\ printed' = IF rv.bool THEN "Index is ready!"
                  ELSE "Index creation process exceeded wait limit."
    /\ stack' = Tail(stack)
    /\ pc' = "ret"
    /\ rv' = Returned
    /\ UNCHANGED <<gw, callV, log, errs, attempt, pollLog, pollState, concV>>

Next ==
    \/ ProvisionStart
    \/ CineList
    \/ CineInsert
    \/ CineDelete
    \/ ExistsStart
    \/ IxList
    \/ EnsureStart
    \/ EnsureAfterCine
    \/ EnsureAfterIx
    \/ EnsureProbe
    \/ EnsureCreate
    \/ SearchStart
    \/ SearchEmbed
    \/ SearchAfterIx
    \/ SearchPipeline
    \/ DemoStart
    \/ DemoAfterEnsure
    \/ DemoPoll
    \/ DemoFinal

Spec == Init /\ [][Next]_vars

\* ------------------------------------------ the demo script run on its own
\* line 204: the time.sleep(1) calls made so far; every failed check is
\* followed by one, except the check that exhausts the budget (line 202)
Sleeps == IF pollState = "TimedOut" THEN attempt - 1 ELSE attempt

\* the steps of a run of the script, once started
DemoSteps ==
    \/ CineList
    \/ CineInsert
    \/ CineDelete
    \/ IxList
    \/ EnsureAfterCine
    \/ EnsureAfterIx
    \/ EnsureProbe
    \/ EnsureCreate
    \/ DemoAfterEnsure
    \/ DemoPoll
    \/ DemoFinal

NextDemo ==
    \/ DemoStart
    \/ DemoSteps

\* every call of the script is synchronous and returns, so a started run
\* keeps taking its next step
SpecDemo == Init /\ [][NextDemo]_vars /\ WF_vars(DemoSteps)

\* ------------------------- create_if_not_exists called by two clients at once
\* a client calls create_if_not_exists (lines 33-40)
ConcStart ==
    \E p \in Procs, c \in Colls :
        /\ cpc[p] = "off"
        /\ cpc' = [cpc EXCEPT ![p] = "list"]
        /\ carg' = [carg EXCEPT ![p] = c]
        /\ UNCHANGED <<gw, clientV, cabsent, cfault>>

\* lines 41-43 (and 51-53) of one client
ConcList ==
    \E p \in Procs, ok \in BOOLEAN :
        /\ cpc[p] = "list"
        /\ cfault' = [cfault EXCEPT ![p] = @ \/ ~ok]
        /\ IF ~ok
           THEN cpc' = [cpc EXCEPT ![p] = "raised"] /\ cabsent' = cabsent
           ELSE IF NeedsCreate(carg[p], collections)
                THEN /\ cpc' = [cpc EXCEPT ![p] = "insert"]
                     /\ cabsent' = [cabsent EXCEPT ![p] = TRUE]
                ELSE /\ cpc' = [cpc EXCEPT ![p] = "returned"]
                     /\ cabsent' = cabsent
        /\ UNCHANGED <<gw, clientV, carg>>

\* line 47 of one client
ConcInsert ==
    \E p \in Procs, ok \in BOOLEAN :
        LET succ == InsertSucceeds(ok, carg[p] \in sentinel) IN
        /\ cpc[p] = "insert"
        /\ cfault' = [cfault EXCEPT ![p] = @ \/ ~ok]
        /\ IF succ
           THEN /\ collections' = collections \cup {carg[p]}
                /\ sentinel' = sentinel \cup {carg[p]}
                /\ cpc' = [cpc EXCEPT ![p] = "delete"]
           ELSE /\ UNCHANGED <<collections, sentinel>>
                /\ cpc' = [cpc EXCEPT ![p] = "raised"]
        /\ UNCHANGED <<indexes, docs, clientV, carg, cabsent>>

\* lines 48-53 of one client
ConcDelete ==
    \E p \in Procs, ok \in BOOLEAN :
        /\ cpc[p] = "delete"
        /\ cfault' = [cfault EXCEPT ![p] = @ \/ ~ok]
        /\ sentinel' = AfterDelete(ok, sentinel, carg[p])
        /\ cpc' = [cpc EXCEPT ![p] = IF ok THEN "returned" ELSE "raised"]
        /\ UNCHANGED <<collections, indexes, docs, clientV, carg, cabsent>>

NextConc ==
    \/ ConcStart
    \/ ConcList
    \/ ConcInsert
    \/ ConcDelete

SpecConc == Init /\ [][NextConc]_vars

\* ======================================================= properties
Writes(s) == SelectSeq(s, LAMBDA e : e[1] \in {"insert_one", "delete_one"})
Last(s) == s[Len(s)]
Top(l) == pc = "ret" /\ stack # <<>> /\ Head(stack) = l

\* create_if_not_exists has just returned normally (called directly, or
\* from line 74)
CineReturned ==
    /\ rv.kind = "returned"
    /\ \/ Done /\ op = "provision"
       \/ Top("ensure_cine")

\* index_exists has just finished (called directly, or from 77, 117, 198, 207)
IxFinished ==
    \/ Done /\ op = "exists"
    \/ Top("ensure_ix") \/ Top("search_ix") \/ Top("demo_poll") \/ Top("demo_final")

\* the second of two consecutive _create_search_index calls with identical
\* arguments has finished, the first having succeeded
SecondEnsureDone ==
    /\ Done /\ op = "ensure"
    /\ prev.op = "ensure" /\ prev.c = arg.c /\ prev.n = arg.n
    /\ prev.kind = "returned"

\* C1: two consecutive ensure_search_index calls with identical arguments,
\* the first succeeding, submit exactly one create-index request: the second
\* call submits none.
C1_Idempotent ==
    SecondEnsureDone =>
        /\ Requests(log, "create_search_index") = 0
        /\ prev.creates + Requests(log, "create_search_index") <= 1

\* C2: when ensure_collection returns normally the collection is listed; it
\* made exactly one sentinel insert followed by one sentinel delete if the
\* collection was absent before the call, and no write if it was present.
C2_EnsureCollection ==
    CineReturned =>
        /\ arg.c \in collections
        /\ arg.c \notin pre.colls =>
               Writes(log) = <<<<"insert_one", TRUE>>, <<"delete_one", TRUE>>>>
        /\ arg.c \in pre.colls => Writes(log) = <<>>

C2_Witness ==
    /\ CineReturned
    /\ arg.c \notin pre.colls
    /\ Len(Writes(log)) = 2

\* the polling loop of the demo has just ended
LoopEnded == pc = "ix_list" /\ stack # <<>> /\ Head(stack) = "demo_final"
\* the existence checks the loop has made: all list requests of the run but
\* the one made by step 1
LoopChecks == Requests(log, "list_search_indexes") - 1

\* C3: the poller ends Ready after exactly k existence checks when the k-th
\* check (k <= max_attempts + 1) is the first to report the index, and ends
\* TimedOut after exactly max_attempts + 1 checks when none reports it.
C3_Polling ==
    /\ (\E i \in 1..Len(pollLog) : pollLog[i]) => pollState = "Ready"
    /\ LoopEnded =>
        /\ pollState \in {"Ready", "TimedOut"}
        /\ LoopChecks = Len(pollLog)
        /\ pollState = "Ready" =>
            /\ LoopChecks \in 1..(max_attempts + 1)
            /\ pollLog[LoopChecks]
            /\ \A i \in 1..(LoopChecks - 1) : ~pollLog[i]
        /\ pollState = "TimedOut" =>
            /\ LoopChecks = max_attempts + 1
            /\ \A i \in 1..LoopChecks : ~pollLog[i]

C3_Witness ==
    /\ LoopEnded
    /\ pollState = "Ready"
    /\ LoopChecks = max_attempts + 1

\* C4: index_exists never raises; it returns false for a name never created
\* on the collection, true when the index exists and the list query
\* succeeds, and false whenever the list query fails, even if the index
\* exists.
C4_IndexExists ==
    IxFinished =>
        /\ rv.kind = "returned"
        /\ indexes[<<arg.c, arg.n>>] = 0 => ~rv.bool
        /\ Last(log) = <<"list_search_indexes", FALSE>> => ~rv.bool
        /\ (Last(log) = <<"list_search_indexes", TRUE>>
              /\ indexes[<<arg.c, arg.n>>] > 0) => rv.bool

C4_Witness ==
    /\ Done /\ op = "exists"
    /\ prev.op = "ensure" /\ prev.c = arg.c /\ prev.n = arg.n
    /\ prev.kind = "returned" /\ prev.creates = 1
    /\ Last(log) = <<"list_search_indexes", FALSE>>
    /\ rv = ReturnedBool(FALSE)

\* C5: search never raises to its caller: under every combination of gateway
\* and embedding outcomes it ends by returning a sequence.
C5_SearchNeverRaises ==
    (Done /\ op = "search") => rv.kind = "returned"

\* C6: a search whose index-existence check returns false returns an empty
\* sequence and has not called the embedding provider at all.
C6_ShortCircuit ==
    /\ (Top("search_ix") /\ ~rv.bool) => Requests(log, "get_embedding") = 0
    /\ (Done /\ op = "search" /\ Count(errs, "index_missing") > 0) =>
           /\ rv = ReturnedDocs(<<>>)
           /\ Requests(log, "get_embedding") = 0

\* C7: when the embedding provider fails while search embeds the query, the
\* failure is logged and propagated to the caller, not turned into an empty
\* result.
C7_EmbeddingPropagates ==
    (Done /\ op = "search" /\ Failed(log, "get_embedding")) =>
        /\ rv = Raised("get_embedding")
        /\ Count(errs, "embedding") = 1

C7_Witness ==
    /\ Done /\ op = "search"
    /\ Failed(log, "get_embedding")
    /\ indexes[<<arg.c, arg.n>>] > 0

Descending(d) == \A i, j \in 1..Len(d) : i < j => d[i] >= d[j]
NoFailure(s) == \A i \in 1..Len(s) : s[i][2]

\* C8: with the index present, no failing call and n <= limit matching
\* stored documents, search returns exactly n results in descending order of
\* score.
C8_SearchResults ==
    (/\ Done /\ op = "search"
     /\ indexes[<<arg.c, arg.n>>] > 0
     /\ NoFailure(log)
     /\ docs[arg.c] <= arg.limit) =>
        /\ rv.kind = "returned"
        /\ Len(rv.docs) = docs[arg.c]
        /\ Descending(rv.docs)

FailLoud == {"list_collection_names", "insert_one", "delete_one",
             "get_embedding", "create_search_index"}

\* C9: ensure_search_index fails loud and does not retry: a failure of
\* provisioning, of the probe or of the create-index request is raised to the
\* caller, it is the last request of the call, and a call submits at most
\* one create-index request.
C9_FailLoud ==
    op = "ensure" =>
        /\ Requests(log, "create_search_index") <= 1
        /\ \A r \in FailLoud :
             (Done /\ Failed(log, r)) =>
                 /\ rv = Raised(r)
                 /\ Last(log) = <<r, FALSE>>
                 /\ Count(log, <<r, FALSE>>) = 1
                 /\ Count(errs, "create_search_index_failed") = 1

C9_Witness ==
    /\ Done /\ op = "ensure"
    /\ Failed(log, "create_search_index")

\* C10: whatever the outcomes of the gateway requests, at most one
\* create-index request per (collection, index name) has succeeded, so at
\* most one index of a given name exists on a collection.
C10_AtMostOneIndex ==
    \A k \in Colls \X IdxNames : indexes[k] <= 1

\* positions of the requests of kind r in a log
Pos(s, r) == {i \in 1..Len(s) : s[i][1] = r}
Provisioning == {"list_collection_names", "insert_one", "delete_one"}
\* the existence check of line 77 has been made / has returned true: no
\* index is created between the start of the call and that check
Checked == Pos(log, "list_search_indexes") # {}
CheckedTrue ==
    /\ \E i \in Pos(log, "list_search_indexes") : log[i][2]
    /\ pre.idx[<<arg.c, arg.n>>] > 0

\* C11: within one ensure_search_index call provisioning completes first,
\* then comes the existence check, and a create-index request is submitted
\* only after the check returned false; a true check ends the call with no
\* probe and no create-index request, a false check is followed by exactly
\* one probe before the create-index request.
C11_StepOrder ==
    (op = "ensure" /\ ~Top("ensure_ix")) =>
        /\ Requests(log, "list_search_indexes") <= 1
        /\ Requests(log, "get_embedding") <= 1
        /\ \A i \in 1..Len(log) : \A j \in Pos(log, "list_search_indexes") :
               log[i][1] \in Provisioning => (i < j /\ log[i][2])
        /\ Checked => (arg.c \in collections /\ log[1] = <<"list_collection_names", TRUE>>)
        /\ (Checked /\ CheckedTrue) =>
               /\ Pos(log, "get_embedding") = {}
               /\ Pos(log, "create_search_index") = {}
               /\ Done /\ rv = Returned
        /\ \A k \in Pos(log, "get_embedding") :
               /\ ~CheckedTrue
               /\ \E i \in Pos(log, "list_search_indexes") : i < k
        /\ \A j \in Pos(log, "create_search_index") :
               /\ ~CheckedTrue
               /\ \E i \in Pos(log, "list_search_indexes") : i < j
               /\ \E k \in Pos(log, "get_embedding") : k < j /\ log[k][2]
        /\ (Done /\ rv = Returned /\ ~CheckedTrue) =>
               /\ Requests(log, "get_embedding") = 1
               /\ Requests(log, "create_search_index") = 1

C11_Witness ==
    /\ Done /\ op = "ensure" /\ rv = Returned
    /\ Checked /\ ~CheckedTrue
    /\ log[Len(log)] = <<"create_search_index", TRUE>>
    /\ log[Len(log) - 1] = <<"get_embedding", TRUE>>

\* a placeholder left behind: stored, and not about to be deleted by the
\* call that inserted it
Residual(c) == c \in sentinel /\ ~(pc = "cine_delete" /\ arg.c = c)

\* create_if_not_exists has just failed in its delete, after its insert
DeleteFailed ==
    /\ Len(log) >= 2
    /\ Last(log) = <<"delete_one", FALSE>>
    /\ log[Len(log) - 1] = <<"insert_one", TRUE>>
    /\ pc = "ret"
    /\ (stack = <<>> /\ op = "provision") \/ Top("ensure_cine")

\* C12: when the sentinel insert succeeds and the sentinel delete fails, the
\* error reaches the caller with no compensating request, the sentinel stays
\* in the collection, and later ensure_collection calls on that name make no
\* write, so the sentinel is never removed.
C12_ResidualSentinel ==
    /\ [](DeleteFailed =>
            /\ rv = Raised("delete_one")
            /\ arg.c \in sentinel /\ arg.c \in collections)
    /\ []((op \in {"provision", "ensure", "demo"} /\ arg.c \in pre.colls) =>
            Writes(log) = <<>>)
    /\ [][\A c \in Colls : Residual(c) => Residual(c)']_vars

C12_Witness ==
    /\ Done /\ op = "provision" /\ rv = Returned
    /\ prev.op = "provision" /\ prev.c = arg.c /\ prev.kind = "raised"
    /\ arg.c \in sentinel
    /\ arg.c \in pre.colls

\* client p failed although none of its own requests did
Collided(p) == cpc[p] = "raised" /\ ~cfault[p]

\* C13: create_if_not_exists is not safe when two clients provision the same
\* absent collection at once: without any gateway fault both can find the
\* collection absent and one of them then fails, its placeholder insert
\* colliding with the placeholder the other has stored.  Such a failure has
\* no other cause (the other client is past its insert), and the two are
\* never both between insert and delete.
C13_ConcurrentCollision ==
    \A p, q \in Procs : p # q =>
        /\ ~(cpc[p] = "delete" /\ cpc[q] = "delete" /\ carg[p] = carg[q])
        /\ Collided(p) =>
               /\ cabsent[p] /\ cabsent[q]
               /\ carg[q] = carg[p]
               /\ carg[p] \in collections
               /\ cpc[q] \in {"delete", "returned", "raised"}

C13_Witness ==
    \E p, q \in Procs :
        /\ p # q
        /\ Collided(p)
        /\ ~cfault[q]
        /\ cabsent[p] /\ cabsent[q]
        /\ carg[p] = carg[q]
        /\ cpc[q] = "delete"

\* C14: the polling loop always ends in Ready or TimedOut, whatever the
\* existence checks answer, after at most max_attempts waits of one interval.
C14_PollTerminates ==
    /\ [](Sleeps <= max_attempts /\ attempt <= max_attempts + 1)
    /\ [](pollState = "TimedOut" => Len(pollLog) = max_attempts + 1)
    /\ (pollState = "Checking") ~> (pollState \in {"Ready", "TimedOut"})

C14_Witness ==
    /\ pollState = "TimedOut"
    /\ Sleeps = max_attempts
    /\ Done

\* the $vectorSearch stage search is building (lines 125-134)
BuildingStage == pc = "search_pipeline"

\* C15: the vector-search stage built by search asks for a candidate pool at
\* least as large as the result limit the caller passed.
C15_CandidatePool ==
    BuildingStage =>
        VectorSearchStage(arg.n, arg.limit).numCandidates >= arg.limit

\* what one step may do to the stored state: documents, collections and
\* search indexes are never removed, and placeholders change only inside a
\* call that found its collection absent
FrameStep ==
    /\ docs' = docs
    /\ collections \subseteq collections'
    /\ \A k \in Colls \X IdxNames : indexes'[k] >= indexes[k]
    /\ sentinel' # sentinel =>
           /\ arg.c \notin pre.colls
           /\ pc \in {"cine_insert", "cine_delete"}
           /\ \A c \in Colls \ {arg.c} : (c \in sentinel') = (c \in sentinel)

\* C16: a successful ensure_collection call leaves the collection's documents
\* as they were (a newly created collection is empty, the sentinel is gone),
\* and no operation of the layer removes an existing collection or search
\* index.
C16_Frame ==
    /\ [](CineReturned =>
            /\ arg.c \notin pre.colls => (arg.c \notin sentinel /\ docs[arg.c] = 0)
            /\ arg.c \in pre.colls => Writes(log) = <<>>)
    /\ [][FrameStep]_vars

C16_Witness ==
    /\ Done /\ op = "ensure" /\ rv = Returned
    /\ arg.c \notin pre.colls
    /\ arg.c \in collections /\ arg.c \notin sentinel
    /\ indexes[<<arg.c, arg.n>>] = 1

\* a run of the demo script has printed its status line
DemoReported == Done /\ op = "demo" /\ printed # ""

\* C17: the demo reports the index as ready exactly when the polling loop
\* ended on a true existence check, and a run that logged the polling
\* timeout never reports the index as ready.
C17_ReportAgrees ==
    DemoReported =>
        /\ (printed = "Index is ready!") <=> (pollState = "Ready")
        /\ Count(errs, "timed_out") > 0 => printed # "Index is ready!"

====
